---- MODULE Spec2Model ----
(***************************************************************************)
(* Member-detail page of the visualization repository: loadData, render,   *)
(* renderFallback, the load-more click handler, groupByMeeting and the     *)
(* rendering helpers of the member-detail script (src/unnamed/part_000,    *)
(* lines 176-497).                                                         *)
(*                                                                         *)
(* JavaScript strings are modelled as tuples of one-character strings, so  *)
(* that template-literal concatenation, truthiness and comparison are      *)
(* computed and not assumed.                                               *)
(***************************************************************************)
EXTENDS Integers, Sequences, FiniteSets, TLC

\* ------------------------------------------------------------------ bounds
MaxGroups == 12       \* largest number of meetings in a fetched payload
MaxClicks == 4        \* load-more clicks counted after the load settled
MaxEarlyClicks == 1   \* load-more clicks counted while the load is pending
MaxRecords == 3       \* longest flat record sequence given to groupByMeeting
MaxPrefix == 4        \* longest freely chosen part of a speech text

\* ------------------------------------------------------- JavaScript values
\* `undefined`: a tuple no string over Chars is equal to.
Undefined == <<"#undefined">>

\* String(undefined), as a template literal interpolates it.
UndefinedText == <<"u", "n", "d", "e", "f", "i", "n", "e", "d">>

\* `${v}` inside a template literal.
ToText(v) == IF v = Undefined THEN UndefinedText ELSE v

\* Truthiness of a string-or-undefined value (v || alt takes alt when falsy).
Truthy(v) == v # Undefined /\ v # <<>>

\* v || alt
OrElse(v, alt) == IF Truthy(v) THEN v ELSE alt

\* v ?? alt
Coalesce(v, alt) == IF v = Undefined THEN alt ELSE v

\* Collation rank of the characters used in the model (punctuation before
\* digits before letters, as localeCompare orders them).
CharRank(c) ==
  CASE c = "_" -> 0
    [] c = "0" -> 1
    [] c = "1" -> 2
    [] c = "2" -> 3
    [] c = "a" -> 4
    [] c = "x" -> 5
    [] OTHER   -> 6

RECURSIVE localeCompare(_, _)
\* a.localeCompare(b): negative, zero or positive.
localeCompare(a, b) ==
  IF a = <<>> /\ b = <<>> THEN 0
  ELSE IF a = <<>> THEN -1
  ELSE IF b = <<>> THEN 1
  ELSE IF CharRank(Head(a)) < CharRank(Head(b)) THEN -1
  ELSE IF CharRank(Head(a)) > CharRank(Head(b)) THEN 1
  ELSE localeCompare(Tail(a), Tail(b))

Min(a, b) == IF a < b THEN a ELSE b

\* ------------------------------------------------------------ groupByMeeting
PAGE_SIZE == 5

\* Placeholder meeting name used when nameOfMeeting is missing.
UnknownMeetingName == <<"#unknown-meeting">>

\* speechOrder value standing for a missing speechOrder.
NoOrder == -1

\* GroupKey that never looks at the issueID.
GroupKeyCompositeOnly(record) ==
  ToText(record.date) \o <<"_">> \o ToText(record.nameOfMeeting)
    \o <<"_">> \o ToText(record.issue)

\* const key = record.issueID || `${record.date}_${record.nameOfMeeting}_${record.issue}`
GroupKey(record) ==
  OrElse(record.issueID,
         ToText(record.date) \o <<"_">> \o ToText(record.nameOfMeeting)
           \o <<"_">> \o ToText(record.issue))

\* Index of the map entry with the given key, 0 when map.has(key) is false.
MapIndex(map, key) ==
  IF \E i \in 1..Len(map) : map[i].key = key
  THEN CHOOSE i \in 1..Len(map) : map[i].key = key
  ELSE 0

\* MapPut that pushes a record only into a newly inserted group.
MapPutFirstOnly(map, record) ==
  IF \E i \in 1..Len(map) : map[i].key = GroupKey(record)
  THEN map
  ELSE Append(map, [key |-> GroupKey(record),
                    date |-> Coalesce(record.date, <<>>),
                    meetingName |-> Coalesce(record.nameOfMeeting, UnknownMeetingName),
                    issue |-> Coalesce(record.issue, <<>>),
                    session |-> record.session,
                    speeches |-> <<record>>])

\* One iteration of records.forEach: insert the group when absent, push record.
MapPut(map, record) ==
  LET key == GroupKey(record)
      withKey == IF MapIndex(map, key) = 0
                 THEN Append(map, [key |-> key,
                                   date |-> Coalesce(record.date, <<>>),
                                   meetingName |-> Coalesce(record.nameOfMeeting, UnknownMeetingName),
                                   issue |-> Coalesce(record.issue, <<>>),
                                   session |-> record.session,
                                   speeches |-> <<>>])
                 ELSE map
      i == MapIndex(withKey, key)
  IN [withKey EXCEPT ![i].speeches = Append(@, record)]

RECURSIVE MapFold(_, _)
\* records.forEach(...) over an initially empty Map, in insertion order.
MapFold(map, records) ==
  IF records = <<>> THEN map
  ELSE LET next == MapPut(map, Head(records))
       IN \* the callback has run to completion (next holds at least the
          \* group of this record) before forEach moves to the next record
          IF Len(next) > 0 THEN MapFold(next, Tail(records)) ELSE map

\* Array.from(map.values()): the groups without their keys.
MapValues(map) ==
  [i \in 1..Len(map) |->
     [date |-> map[i].date, meetingName |-> map[i].meetingName,
      issue |-> map[i].issue, session |-> map[i].session,
      speeches |-> map[i].speeches]]

\* DateDescCompare with the operands the other way round (ascending).
DateAscCompare(a, b) == localeCompare(OrElse(a.date, <<>>), OrElse(b.date, <<>>))

\* (a, b) => (b.date || "").localeCompare(a.date || "")
DateDescCompare(a, b) == localeCompare(OrElse(b.date, <<>>), OrElse(a.date, <<>>))

\* Array.prototype.sort with a consistent comparator, cmp[i, j] being the
\* comparator's result on elements i and j: the stable ordering, element i
\* goes after every element that compares lower and after every earlier
\* element that compares equal.
StableSort(s, cmp) ==
  LET pos(i) == 1 + Cardinality({j \in 1..Len(s) :
                      \/ cmp[j, i] < 0
                      \/ (cmp[j, i] = 0 /\ j < i)})
  IN [p \in 1..Len(s) |-> s[CHOOSE i \in 1..Len(s) : pos(i) = p]]

\* .sort((a, b) => (b.date || "").localeCompare(a.date || ""))
SortByDateDesc(groups) ==
  StableSort(groups, [i \in 1..Len(groups), j \in 1..Len(groups) |->
                        DateDescCompare(groups[i], groups[j])])

groupByMeeting(records) == SortByDateDesc(MapValues(MapFold(<<>>, records)))

\* -------------------------------------------------------------- extractSummary
\* Characters of speech texts: the speaker mark, the full-width space, the
\* ASCII space, the newline and an ordinary character; the ellipsis is
\* appended by extractSummary only.
CircleMark == "O"
WideSpace == "W"
Ellipsis == "..."
TextChars == {CircleMark, WideSpace, " ", "\n", "a"}

SUMMARY_LIMIT == 100

\* \s of the regular expressions and of trim().
IsSpace(c) == c \in {" ", "\n", WideSpace}

\* [^<full-width space><space>]: any other character, the newline included.
IsNameChar(c) == c \notin {WideSpace, " "}

\* ^ under the m flag: the start of the text or the position after a newline.
AtLineStart(text, p) == p = 1 \/ text[p - 1] = "\n"

\* The last index of the longest run of name characters starting at p.
RunEnd(text, p) ==
  CHOOSE q \in p..Len(text) :
    /\ \A k \in p..q : IsNameChar(text[k])
    /\ q = Len(text) \/ ~IsNameChar(text[q + 1])

\* The last index of the match of /^O[^W ]+W?/m that starts at p, 0 if none.
MatchEnd(text, p) ==
  IF AtLineStart(text, p) /\ text[p] = CircleMark /\ p < Len(text) /\ IsNameChar(text[p + 1])
  THEN LET q == RunEnd(text, p + 1)
       IN IF q < Len(text) /\ text[q + 1] = WideSpace THEN q + 1 ELSE q
  ELSE 0

\* The first index >= p that holds the speaker mark, 0 if there is none.
NextCircle(text, p) ==
  IF \E i \in p..Len(text) : text[i] = CircleMark
  THEN CHOOSE i \in p..Len(text) :
         text[i] = CircleMark /\ \A k \in p..(i - 1) : text[k] # CircleMark
  ELSE 0

RECURSIVE MatchedFrom(_, _)
\* The g flag: the indices covered by the successive matches found from p on,
\* each search resuming after the previous match.
MatchedFrom(text, p) ==
  LET c == NextCircle(text, p)
  IN IF c = 0 THEN {}
     ELSE IF MatchEnd(text, c) = 0 THEN MatchedFrom(text, c + 1)
     ELSE (c..MatchEnd(text, c)) \cup MatchedFrom(text, MatchEnd(text, c) + 1)

\* A position that is left out of a rebuilt string.
Dropped == "#dropped"

IsKept(c) == c # Dropped

\* text.replace(/^O[^W ]+W?/gm, "")
StripMarkers(text) ==
  LET matched == MatchedFrom(text, 1)
  IN SelectSeq([i \in 1..Len(text) |-> IF i \in matched THEN Dropped ELSE text[i]], IsKept)

\* .replace(/\s+/g, " "): every run of whitespace becomes one space.
CollapseSpaces(text) ==
  SelectSeq([i \in 1..Len(text) |->
               IF ~IsSpace(text[i]) THEN text[i]
               ELSE IF i > 1 /\ IsSpace(text[i - 1]) THEN Dropped
               ELSE " "], IsKept)

\* .trim()
Trim(text) ==
  IF \A i \in 1..Len(text) : IsSpace(text[i]) THEN <<>>
  ELSE SubSeq(text,
              CHOOSE i \in 1..Len(text) : ~IsSpace(text[i]) /\ \A k \in 1..(i - 1) : IsSpace(text[k]),
              CHOOSE j \in 1..Len(text) : ~IsSpace(text[j]) /\ \A k \in (j + 1)..Len(text) : IsSpace(text[k]))

\* const clean = ...
CleanText(text) == Trim(CollapseSpaces(StripMarkers(text)))

\* clean.slice(0, 100) + (clean.length > 100 ? ellipsis : "")
Truncate(clean) ==
  IF Len(clean) > SUMMARY_LIMIT THEN SubSeq(clean, 1, SUMMARY_LIMIT) \o <<Ellipsis>> ELSE clean

\* extractSummary(text), text a string or undefined.
extractSummary(text) ==
  IF text = Undefined \/ text = <<>> THEN <<>> ELSE Truncate(CleanText(text))

\* ------------------------------------------------------------ card rendering
\* OrderValue that puts a missing speechOrder after every present one.
OrderValueMissingLast(speech) == IF speech.speechOrder = NoOrder THEN 1000 ELSE speech.speechOrder

\* (a, b) => (a.speechOrder ?? 0) - (b.speechOrder ?? 0)
OrderValue(speech) == IF speech.speechOrder = NoOrder THEN 0 ELSE speech.speechOrder

SpeechOrderCompare(a, b) == OrderValue(a) - OrderValue(b)

\* SortSpeeches that reverses the array instead of ordering it.
SortSpeechesReversing(speeches) ==
  [i \in 1..Len(speeches) |-> speeches[Len(speeches) + 1 - i]]

\* group.speeches.sort(...): sorts the array of the group in place.
SortSpeeches(speeches) ==
  StableSort(speeches, [i \in 1..Len(speeches), j \in 1..Len(speeches) |->
                          SpeechOrderCompare(speeches[i], speeches[j])])

\* renderSpeechItem: the order link is emitted only for a present speechOrder.
renderSpeechItem(speech) ==
  LET summary == extractSummary(speech.speech)
  IN [id |-> speech.id, order |-> speech.speechOrder,
      hasOrderLink |-> speech.speechOrder # NoOrder,
      summary |-> summary,
      content |-> IF summary # <<>> THEN summary ELSE <<"#no-summary">>]

\* buildMeetingTags: one tag when the session is truthy.
buildMeetingTags(group) == IF Truthy(group.session) THEN <<group.session>> ELSE <<>>

\* renderMeetingCard: the markup of one card, speech items in sorted order.
renderMeetingCard(group) ==
  LET sorted == SortSpeeches(group.speeches)
  IN [date |-> group.date,
      dateLabel |-> OrElse(group.date, <<"-">>),
      issue |-> group.issue,
      tags |-> buildMeetingTags(group),
      title |-> Coalesce(group.meetingName, UnknownMeetingName),
      items |-> [i \in 1..Len(sorted) |-> renderSpeechItem(sorted[i])]]

\* meetingGroups.slice(0, visibleCount)
Slice(groups, count) == SubSeq(groups, 1, Min(count, Len(groups)))

\* VisibleCards that shows only the page reached last.
VisibleCardsLastPage(groups, count) ==
  [i \in 1..(Min(count, Len(groups)) - (IF count > PAGE_SIZE THEN PAGE_SIZE ELSE 0)) |->
     renderMeetingCard(groups[i + (IF count > PAGE_SIZE THEN PAGE_SIZE ELSE 0)])]

\* speechList.innerHTML written by renderVisibleGroups.
VisibleCards(groups, count) ==
  [i \in 1..Len(Slice(groups, count)) |-> renderMeetingCard(groups[i])]

\* meetingGroups after renderVisibleGroups: the speeches arrays of the groups
\* in the slice have been sorted in place by renderMeetingCard.
GroupsAfterRender(groups, count) ==
  [i \in 1..Len(groups) |->
     IF i <= count THEN [groups[i] EXCEPT !.speeches = SortSpeeches(@)]
     ELSE groups[i]]

\* ---------------------------------------------------------------------- Pager
\* ResetCount that shows every group at once.
ResetCountAll(total) == total

\* render: visibleCount = Math.min(PAGE_SIZE, meetingGroups.length)
ResetCount(total) == Min(PAGE_SIZE, total)

\* AdvanceCount that clamps to one full page instead of the number of groups.
AdvanceCountPageClamp(count, total) == Min(count + PAGE_SIZE, PAGE_SIZE)

\* AdvanceCount without the clamp to the number of groups.
AdvanceCountUnclamped(count, total) == count + PAGE_SIZE

\* click: visibleCount = Math.min(visibleCount + PAGE_SIZE, meetingGroups.length)
AdvanceCount(count, total) == Min(count + PAGE_SIZE, total)

\* const hasMore = visibleCount < meetingGroups.length
HasMore(count, total) == count < total

\* LoadMoreHiddenAfterUpdate with the hidden flag inverted.
LoadMoreHiddenInverted(count, total) == HasMore(count, total)

\* updateLoadMoreButton: the hidden property it leaves on the button.
LoadMoreHiddenAfterUpdate(count, total) ==
  IF total <= PAGE_SIZE THEN TRUE ELSE ~HasMore(count, total)

\* updateLoadMoreButton: the label is rewritten only when more can be shown.
LoadMoreTextAfterUpdate(text, count, total) ==
  IF total > PAGE_SIZE /\ HasMore(count, total) THEN <<"more">> ELSE text

\* --------------------------------------------------------- fetched documents
Digit == <<"0", "1", "2">>

\* A distinct issueID text for every meeting number.
IdText(i) == <<Digit[((i \div 9) % 3) + 1], Digit[((i \div 3) % 3) + 1], Digit[(i % 3) + 1]>>

\* Dates cycle through three days and a missing date.
DateOf(i) == IF i % 4 = 0 THEN Undefined ELSE <<Digit[(i % 4)]>>

SpeechRecord(id, meeting, order) ==
  [id |-> id, issueID |-> IdText(meeting), date |-> DateOf(meeting),
   nameOfMeeting |-> <<"a">>, issue |-> <<"x">>, session |-> Undefined,
   speechOrder |-> order,
   speech |-> IF id % 3 = 0 THEN Undefined ELSE <<CircleMark, "a", WideSpace, "a", "\n", "a">>]

\* Flat payload of n meetings; with `twice`, every meeting has a second record
\* with a lower speechOrder that comes after all the first records.
FlatRecords(n, twice) ==
  [i \in 1..(IF twice THEN 2 * n ELSE n) |->
     IF i <= n THEN SpeechRecord(i, i, 2) ELSE SpeechRecord(i, i - n, IF i = n + 1 THEN NoOrder ELSE 1)]

\* Pre-grouped payload of n meetings; every third meeting has no speeches key.
GroupedMeetings(n, twice) ==
  [i \in 1..n |->
     [date |-> DateOf(i),
      meetingName |-> IF i % 5 = 0 THEN Undefined ELSE <<"a">>,
      issue |-> <<"x">>,
      session |-> IF i % 2 = 0 THEN <<"2">> ELSE Undefined,
      hasSpeeches |-> i % 3 # 0,
      speeches |-> IF i % 3 = 0 THEN <<>>
                   ELSE IF twice THEN <<SpeechRecord(2 * i - 1, i, 2), SpeechRecord(2 * i, i, 1)>>
                   ELSE <<SpeechRecord(i, i, 2)>>]]

NoBody ==
  [json |-> "none", records |-> <<>>, meetings |-> <<>>, hasMeetings |-> FALSE,
   member_name |-> Undefined, written_questions |-> <<>>]

WrittenQuestions == << [session |-> 1, number |-> 2], [session |-> 2, number |-> 1],
                       [session |-> 2, number |-> 3] >>

SpeechBodies ==
  {[NoBody EXCEPT !.json = "invalid"]}
  \cup {[NoBody EXCEPT !.json = "array", !.records = FlatRecords(n, twice)] :
          n \in 0..MaxGroups, twice \in BOOLEAN}
  \cup {[NoBody EXCEPT !.json = "object", !.hasMeetings = TRUE,
                       !.meetings = GroupedMeetings(n, twice),
                       !.member_name = IF twice THEN <<"x">> ELSE Undefined,
                       !.written_questions = IF twice THEN WrittenQuestions ELSE <<>>] :
          n \in 0..MaxGroups, twice \in BOOLEAN}
  \cup {[NoBody EXCEPT !.json = "object", !.member_name = name] : name \in {Undefined, <<"x">>}}

\* What fetch(path) settles to.
SpeechResponses ==
  {[settled |-> "rejected", status |-> 0, body |-> NoBody]}
  \cup {[settled |-> "fulfilled", status |-> st, body |-> NoBody] : st \in {404, 500}}
  \cup {[settled |-> "fulfilled", status |-> 200, body |-> b] : b \in SpeechBodies}

\* disability_league_count value standing for a missing (non-number) count.
NoCount == -1

\* A roster entry; isNull marks a JSON null in the list.
NullEntry ==
  [isNull |-> TRUE, slug |-> Undefined, member_name |-> Undefined,
   hasLeagues |-> FALSE, disability_leagues |-> <<>>, disability_league_count |-> NoCount]

Entry(entrySlug, name, hasLeagues, leagues, count) ==
  [isNull |-> FALSE, slug |-> entrySlug, member_name |-> name,
   hasLeagues |-> hasLeagues, disability_leagues |-> leagues, disability_league_count |-> count]

SlugA == <<"a">>

MatchingEntries ==
  { Entry(SlugA, <<"2">>, TRUE, <<"l1", "l2">>, 2),
    Entry(SlugA, Undefined, FALSE, <<>>, NoCount) }

OtherEntry == Entry(<<"0">>, <<"0">>, TRUE, <<"l0">>, 1)

RosterLists ==
  { <<>>, <<OtherEntry>>, <<NullEntry>> }
  \cup { <<m>> : m \in MatchingEntries }
  \cup { <<OtherEntry, m>> : m \in MatchingEntries }
  \cup { <<NullEntry, m>> : m \in MatchingEntries }
  \cup { <<m, NullEntry>> : m \in MatchingEntries }

\* json: "invalid" (json() rejects), "null", "array" (the list itself),
\* "object" ({members: list}) or "objectNoMembers" ({}).
RosterBodies ==
  { [json |-> j, list |-> <<>>] : j \in {"invalid", "null", "objectNoMembers"} }
  \cup { [json |-> j, list |-> l] : j \in {"array", "object"}, l \in RosterLists }

\* What fetch('data/diet_members_socials_enriched.json') settles to.
RosterResponses ==
  { [settled |-> "rejected", status |-> 0, body |-> [json |-> "none", list |-> <<>>]],
    [settled |-> "fulfilled", status |-> 500, body |-> [json |-> "none", list |-> <<>>]] }
  \cup { [settled |-> "fulfilled", status |-> 200, body |-> b] : b \in RosterBodies }

\* Ok that accepts every status.
OkAnyStatus(res) == TRUE

\* Response.ok
Ok(res) == res.status >= 200 /\ res.status <= 299

\* ----------------------------------------------------------------- the page
VARIABLES
  slug,             \* params.get('slug'); Undefined stands for null
  speechRes,        \* what the speech-history fetch settles to
  rosterRes,        \* what the roster fetch settles to
  pc,               \* position of loadData: start, fetching, rosterJson, speechJson, done
  memberProfile,    \* local of loadData, live across its awaits
  meetingGroups,
  visibleCount,
  speechList,       \* [hidden, innerHTML]
  loadMoreButton,   \* [hidden, textContent]
  placeholder,      \* [attached, textContent]
  summarySection,   \* innerHTML: "markup" or the fallback message
  memberNameEl,     \* textContent
  memberMetaEl,     \* textContent
  documentTitle,
  leagueSection,    \* [hidden, placeholder, listHidden, items]
  questionsSection, \* [hidden, placeholder, listHidden, items]
  invoked,          \* history: which of render / renderFallback have been called
  clicks,           \* history: load-more clicks handled after loadData finished
  earlyClicks       \* history: load-more clicks handled while loadData was pending

inputs == <<slug, speechRes, rosterRes>>
pagerVars == <<meetingGroups, visibleCount, speechList, loadMoreButton>>
headerVars == <<memberNameEl, memberMetaEl, documentTitle, leagueSection, questionsSection>>
history == <<invoked, clicks, earlyClicks>>
vars == <<slug, speechRes, rosterRes, pc, memberProfile, meetingGroups, visibleCount,
          speechList, loadMoreButton, placeholder, summarySection, memberNameEl,
          memberMetaEl, documentTitle, leagueSection, questionsSection,
          invoked, clicks, earlyClicks>>

\* The page as its markup delivers it, before the script has run: the list and
\* the load-more control start hidden, the placeholder shows a loading text.
Markup ==
  [speechList |-> [hidden |-> TRUE, innerHTML |-> <<>>],
   loadMoreButton |-> [hidden |-> TRUE, textContent |-> <<"markup">>],
   placeholder |-> [attached |-> TRUE, textContent |-> <<"loading">>],
   summarySection |-> "markup",
   memberNameEl |-> <<"markup">>,
   memberMetaEl |-> <<>>,
   documentTitle |-> <<"markup">>,
   leagueSection |-> [hidden |-> TRUE, placeholder |-> "markup", listHidden |-> TRUE, items |-> <<>>],
   questionsSection |-> [hidden |-> TRUE, placeholder |-> "markup", listHidden |-> TRUE, items |-> <<>>]]

Init ==
  /\ slug \in {Undefined, SlugA}
  /\ speechRes \in SpeechResponses
  /\ rosterRes \in RosterResponses
  \* without a slug no fetch is issued: one pair of responses represents all
  /\ slug = Undefined => speechRes.settled = "rejected" /\ rosterRes.settled = "rejected"
  /\ pc = "start"
  /\ memberProfile = NullEntry
  /\ meetingGroups = <<>>
  /\ visibleCount = 0
  /\ speechList = Markup.speechList
  /\ loadMoreButton = Markup.loadMoreButton
  /\ placeholder = Markup.placeholder
  /\ summarySection = Markup.summarySection
  /\ memberNameEl = Markup.memberNameEl
  /\ memberMetaEl = Markup.memberMetaEl
  /\ documentTitle = Markup.documentTitle
  /\ leagueSection = Markup.leagueSection
  /\ questionsSection = Markup.questionsSection
  /\ invoked = {}
  /\ clicks = 0
  /\ earlyClicks = 0

\* The literal placeholder label for a member without any name.
MemberLabel == <<"#member">>

\* catch (error): the page-level error message, written to the placeholder.
Fail(message) ==
  /\ placeholder' = [placeholder EXCEPT !.textContent = <<"failed", message>>]
  /\ pc' = "done"
  /\ UNCHANGED <<inputs, memberProfile, pagerVars, summarySection, headerVars, history>>

\* renderDisabilityLeagues(leagues)
renderDisabilityLeagues(section, leagues) ==
  IF leagues = <<>>
  THEN [section EXCEPT !.hidden = FALSE,
                       !.placeholder = IF @ = "removed" THEN @ ELSE "no-leagues",
                       !.listHidden = TRUE]
  ELSE [hidden |-> FALSE, placeholder |-> "removed", listHidden |-> FALSE, items |-> leagues]

\* (a, b) => (b.session ?? 0) - (a.session ?? 0) || (b.number ?? 0) - (a.number ?? 0)
QuestionCompare(a, b) ==
  IF b.session - a.session # 0 THEN b.session - a.session ELSE b.number - a.number

\* renderWrittenQuestions(list)
renderWrittenQuestions(section, list) ==
  IF list = <<>>
  THEN [section EXCEPT !.hidden = FALSE,
                       !.placeholder = IF @ = "removed" THEN @ ELSE "no-questions",
                       !.listHidden = TRUE]
  ELSE [hidden |-> FALSE, placeholder |-> "removed", listHidden |-> FALSE,
        items |-> StableSort(list, [i \in 1..Len(list), j \in 1..Len(list) |->
                                      QuestionCompare(list[i], list[j])])]

\* profile?.disability_leagues ?? []
LeaguesOf(profile) ==
  IF profile.isNull \/ ~profile.hasLeagues THEN <<>> ELSE profile.disability_leagues

\* typeof profile?.disability_league_count === 'number' ? [count part] : []
LeagueCountPart(profile) ==
  IF profile.isNull \/ profile.disability_league_count = NoCount THEN <<>>
  ELSE << <<"leagues", profile.disability_league_count>> >>

\* profile?.member_name
ProfileName(profile) == IF profile.isNull THEN Undefined ELSE profile.member_name

\* records.member_name ?? profile?.member_name ?? slug ?? "議員"
MergedName(payloadName, profile) ==
  Coalesce(payloadName, Coalesce(ProfileName(profile), Coalesce(slug, MemberLabel)))

RECURSIVE SpeechCount(_)
\* groupData.reduce: the sum of the lengths of the speeches arrays.
SpeechCount(meetings) ==
  IF meetings = <<>> THEN 0
  ELSE (IF Head(meetings).hasSpeeches THEN Len(Head(meetings).speeches) ELSE 0)
       + SpeechCount(Tail(meetings))

\* groupData.map((meeting) => ({...meeting, speeches: meeting.speeches ?? []}))
SpreadMeetings(meetings) ==
  [i \in 1..Len(meetings) |->
     [date |-> meetings[i].date, meetingName |-> meetings[i].meetingName,
      issue |-> meetings[i].issue, session |-> meetings[i].session,
      speeches |-> IF meetings[i].hasSpeeches THEN meetings[i].speeches ELSE <<>>]]

\* Array.isArray(records) ? records : records.meetings ?? []
GroupData(body) ==
  IF body.json = "array" THEN body.records
  ELSE IF body.hasMeetings THEN body.meetings ELSE <<>>

\* The value render assigns to meetingGroups.
NewMeetingGroups(body) ==
  IF body.json = "array" THEN groupByMeeting(body.records)
  ELSE SortByDateDesc(SpreadMeetings(GroupData(body)))

\* render(records, profile), for a parsed payload (array or object).
render(body, profile) ==
  /\ invoked' = invoked \cup {"render"}
  /\ IF body.json = "object"
     THEN /\ memberNameEl' = MergedName(body.member_name, profile)
          /\ documentTitle' = <<"speech-summary">> \o MergedName(body.member_name, profile)
          /\ memberMetaEl' = << <<"questions", Len(body.written_questions)>>,
                                <<"speeches", SpeechCount(GroupData(body))>>,
                                <<"meetings", Len(GroupData(body))>> >>
                             \o LeagueCountPart(profile)
          /\ leagueSection' = renderDisabilityLeagues(leagueSection, LeaguesOf(profile))
          /\ questionsSection' = renderWrittenQuestions(questionsSection, body.written_questions)
     ELSE /\ memberNameEl' = IF Truthy(slug) THEN slug ELSE memberNameEl
          /\ UNCHANGED <<documentTitle, memberMetaEl, leagueSection, questionsSection>>
  /\ IF GroupData(body) = <<>>
     THEN /\ placeholder' = [placeholder EXCEPT !.textContent = <<"no-speeches">>]
          /\ meetingGroups' = <<>>
          /\ loadMoreButton' = [loadMoreButton EXCEPT !.hidden = TRUE]
          /\ UNCHANGED <<visibleCount, speechList>>
     ELSE LET groups == NewMeetingGroups(body)
              count == ResetCount(Len(groups))
          IN /\ placeholder' = [placeholder EXCEPT !.attached = FALSE]
             /\ visibleCount' = count
             /\ meetingGroups' = GroupsAfterRender(groups, count)
             /\ speechList' = [hidden |-> FALSE, innerHTML |-> VisibleCards(groups, count)]
             /\ loadMoreButton' =
                  [hidden |-> LoadMoreHiddenAfterUpdate(count, Len(groups)),
                   textContent |-> LoadMoreTextAfterUpdate(loadMoreButton.textContent,
                                                           count, Len(groups))]
  /\ UNCHANGED summarySection

\* renderFallback(profile)
renderFallback(profile) ==
  /\ invoked' = invoked \cup {"renderFallback"}
  /\ memberNameEl' = Coalesce(ProfileName(profile), Coalesce(slug, MemberLabel))
  /\ documentTitle' = <<"summary">> \o Coalesce(ProfileName(profile), Coalesce(slug, MemberLabel))
  /\ memberMetaEl' = IF LeagueCountPart(profile) # <<>> THEN LeagueCountPart(profile)
                     ELSE << <<"unregistered", 0>> >>
  /\ leagueSection' = renderDisabilityLeagues(leagueSection, LeaguesOf(profile))
  /\ questionsSection' = [questionsSection EXCEPT !.hidden = TRUE]
  /\ summarySection' = "not-registered"
  /\ placeholder' = [placeholder EXCEPT !.attached = FALSE]
  /\ loadMoreButton' = [loadMoreButton EXCEPT !.hidden = TRUE]
  /\ UNCHANGED <<meetingGroups, visibleCount, speechList>>

\* ------------------------------------------------------------------ loadData
RECURSIVE FindProfile(_)
\* rosterList.find((entry) => entry.slug === slug) ?? null; reading .slug of a
\* null entry throws before any later entry is examined.
FindProfile(list) ==
  IF list = <<>> THEN [threw |-> FALSE, profile |-> NullEntry]
  ELSE IF Head(list).isNull THEN [threw |-> TRUE, profile |-> NullEntry]
  ELSE IF Head(list).slug = slug THEN [threw |-> FALSE, profile |-> Head(list)]
  ELSE FindProfile(Tail(list))

\* Array.isArray(rosterPayload) ? rosterPayload : rosterPayload.members ?? []
RosterList(body) == IF body.json \in {"array", "object"} THEN body.list ELSE <<>>

\* AfterRoster that tests !speechRes.ok before the 404 status.
AfterRosterOkFirst(profile) ==
  IF ~Ok(speechRes)
  THEN Fail("HTTP")
  ELSE /\ pc' = "speechJson"
       /\ memberProfile' = profile
       /\ UNCHANGED <<inputs, pagerVars, placeholder, summarySection, headerVars, history>>

\* Lines 221-227: what loadData does once memberProfile is known.
AfterRoster(profile) ==
  IF speechRes.status = 404
  THEN /\ renderFallback(profile)
       /\ pc' = "done"
       /\ memberProfile' = profile
       /\ UNCHANGED <<inputs, clicks, earlyClicks>>
  ELSE IF ~Ok(speechRes)
  THEN Fail("HTTP")
  ELSE /\ pc' = "speechJson"
       /\ memberProfile' = profile
       /\ UNCHANGED <<inputs, pagerVars, placeholder, summarySection, headerVars, history>>

\* PromiseAllRejects without the .catch(() => null) on the roster fetch.
PromiseAllRejectsOnEither == speechRes.settled = "rejected" \/ rosterRes.settled = "rejected"

\* Promise.all([fetch(path), fetch(roster).catch(() => null)]) rejects only
\* when the speech-history fetch rejects.
PromiseAllRejects == speechRes.settled = "rejected"

\* rosterRes && rosterRes.ok
RosterUsable == rosterRes.settled = "fulfilled" /\ Ok(rosterRes)

\* LoadDataStart without the check for a missing slug.
LoadDataStartUnguarded ==
  /\ pc = "start"
  /\ pc' = "fetching"
  /\ UNCHANGED <<inputs, memberProfile, pagerVars, placeholder, summarySection, headerVars, history>>

\* loadData() up to its first await: the missing-slug message, or the fetches.
LoadDataStart ==
  /\ pc = "start"
  /\ IF ~Truthy(slug)
     THEN /\ placeholder' = [placeholder EXCEPT !.textContent = <<"no-member">>]
          /\ pc' = "done"
     ELSE /\ pc' = "fetching"
          /\ UNCHANGED placeholder
  /\ UNCHANGED <<inputs, memberProfile, pagerVars, summarySection, headerVars, history>>

\* await Promise.all([...]) settles; loadData runs on to its next await or end.
FetchesSettle ==
  /\ pc = "fetching"
  /\ IF PromiseAllRejects
     THEN Fail("network")
     ELSE IF RosterUsable
     THEN /\ pc' = "rosterJson"
          /\ UNCHANGED <<inputs, memberProfile, pagerVars, placeholder, summarySection,
                         headerVars, history>>
     ELSE AfterRoster(NullEntry)

\* await rosterRes.json() settles; the roster is searched for the slug.
RosterJsonSettle ==
  /\ pc = "rosterJson"
  /\ IF rosterRes.body.json = "invalid" THEN Fail("roster-json")
     ELSE IF rosterRes.body.json = "null" THEN Fail("roster-null")
     ELSE IF FindProfile(RosterList(rosterRes.body)).threw THEN Fail("roster-entry")
     ELSE AfterRoster(FindProfile(RosterList(rosterRes.body)).profile)

\* await speechRes.json() settles; render(payload, memberProfile).
SpeechJsonSettle ==
  /\ pc = "speechJson"
  /\ IF speechRes.body.json = "invalid"
     THEN Fail("speech-json")
     ELSE /\ render(speechRes.body, memberProfile)
          /\ pc' = "done"
          /\ UNCHANGED <<inputs, memberProfile, clicks, earlyClicks>>

\* The click listener of the load-more button (registered after loadData()).
Click ==
  /\ pc # "start"
  /\ IF pc = "done"
     THEN clicks < MaxClicks /\ clicks' = clicks + 1 /\ UNCHANGED earlyClicks
     ELSE earlyClicks < MaxEarlyClicks /\ earlyClicks' = earlyClicks + 1 /\ UNCHANGED clicks
  /\ LET count == AdvanceCount(visibleCount, Len(meetingGroups))
     IN /\ visibleCount' = count
        /\ meetingGroups' = GroupsAfterRender(meetingGroups, count)
        /\ speechList' = [speechList EXCEPT !.innerHTML = VisibleCards(meetingGroups, count)]
        /\ loadMoreButton' =
             [hidden |-> LoadMoreHiddenAfterUpdate(count, Len(meetingGroups)),
              textContent |-> LoadMoreTextAfterUpdate(loadMoreButton.textContent, count,
                                                      Len(meetingGroups))]
  /\ UNCHANGED <<inputs, pc, memberProfile, placeholder, summarySection, headerVars, invoked>>

Next ==
  \/ LoadDataStart
  \/ FetchesSettle
  \/ RosterJsonSettle
  \/ SpeechJsonSettle
  \/ Click

Spec == Init /\ [][Next]_vars

\* ------------------------------------------- groupByMeeting on its own inputs
KeyRecords ==
  { [id |-> 0, issueID |-> i, date |-> d, nameOfMeeting |-> m, issue |-> <<"x">>,
     session |-> Undefined, speechOrder |-> 1, speech |-> <<"a">>] :
      i \in {Undefined, <<"a">>, <<"1", "_", "a", "_", "x">>},
      d \in {Undefined, <<"1">>, <<"1", "_", "a">>},
      m \in {<<"a">>, <<"a", "_", "a">>} }

\* A flat input: records chosen[1..n], record i carrying id i.
FlatInput(chosen) == [i \in DOMAIN chosen |-> [chosen[i] EXCEPT !.id = i]]

\* Every flat input of at most MaxRecords records is an initial state.
InitGroup ==
  /\ slug = SlugA
  /\ \E n \in 0..MaxRecords : \E chosen \in [1..n -> KeyRecords] :
       speechRes = [settled |-> "fulfilled", status |-> 200,
                    body |-> [NoBody EXCEPT !.json = "array", !.records = FlatInput(chosen)]]
  /\ rosterRes = [settled |-> "rejected", status |-> 0, body |-> [json |-> "none", list |-> <<>>]]
  /\ pc = "group"
  /\ memberProfile = NullEntry
  /\ meetingGroups = <<>>
  /\ visibleCount = 0
  /\ speechList = Markup.speechList
  /\ loadMoreButton = Markup.loadMoreButton
  /\ placeholder = Markup.placeholder
  /\ summarySection = Markup.summarySection
  /\ memberNameEl = Markup.memberNameEl
  /\ memberMetaEl = Markup.memberMetaEl
  /\ documentTitle = Markup.documentTitle
  /\ leagueSection = Markup.leagueSection
  /\ questionsSection = Markup.questionsSection
  /\ invoked = {}
  /\ clicks = 0
  /\ earlyClicks = 0

\* meetingGroups = groupByMeeting(records)
GroupStep ==
  /\ pc = "group"
  /\ meetingGroups' = groupByMeeting(speechRes.body.records)
  /\ pc' = "grouped"
  /\ UNCHANGED <<inputs, memberProfile, visibleCount, speechList, loadMoreButton, placeholder,
                 summarySection, headerVars, history>>

NextGroup == GroupStep

SpecGroup == InitGroup /\ [][NextGroup]_vars

\* ------------------------------------------- extractSummary on its own inputs
\* Speech texts: a freely chosen part of at most MaxPrefix characters and a
\* run of ordinary characters that is empty or about as long as the limit, the run
\* standing after or before the free part; and the missing text.
PadLengths == {0, SUMMARY_LIMIT - 2, SUMMARY_LIMIT}

Pad(n) == [i \in 1..n |-> "a"]

SpeechText(free, n, padFirst) == IF padFirst THEN Pad(n) \o free ELSE free \o Pad(n)

InitSummary ==
  /\ slug = SlugA
  /\ \/ \E k \in 0..MaxPrefix : \E free \in [1..k -> TextChars] :
          \E n \in PadLengths : \E padFirst \in BOOLEAN :
            speechRes = [settled |-> "fulfilled", status |-> 200,
                         body |-> [NoBody EXCEPT !.json = "array",
                                     !.records = <<[SpeechRecord(1, 1, 1) EXCEPT
                                                      !.speech = SpeechText(free, n, padFirst)]>>]]
     \/ speechRes = [settled |-> "fulfilled", status |-> 200,
                     body |-> [NoBody EXCEPT !.json = "array",
                                 !.records = <<[SpeechRecord(1, 1, 1) EXCEPT !.speech = Undefined]>>]]
  /\ rosterRes = [settled |-> "rejected", status |-> 0, body |-> [json |-> "none", list |-> <<>>]]
  /\ pc = "summary"
  /\ memberProfile = NullEntry
  /\ meetingGroups = <<>>
  /\ visibleCount = 0
  /\ speechList = Markup.speechList
  /\ loadMoreButton = Markup.loadMoreButton
  /\ placeholder = Markup.placeholder
  /\ summarySection = Markup.summarySection
  /\ memberNameEl = Markup.memberNameEl
  /\ memberMetaEl = Markup.memberMetaEl
  /\ documentTitle = Markup.documentTitle
  /\ leagueSection = Markup.leagueSection
  /\ questionsSection = Markup.questionsSection
  /\ invoked = {}
  /\ clicks = 0
  /\ earlyClicks = 0

\* renderSpeechItem(speech) of the one record: its summary is
\* extractSummary(speech.speech).
SummaryStep ==
  /\ pc = "summary"
  /\ speechList' = [speechList EXCEPT !.innerHTML = <<renderSpeechItem(speechRes.body.records[1])>>]
  /\ pc' = "summarised"
  /\ UNCHANGED <<inputs, memberProfile, meetingGroups, visibleCount, loadMoreButton, placeholder,
                 summarySection, headerVars, history>>

NextSummary == SummaryStep

SpecSummary == InitSummary /\ [][NextSummary]_vars

\* ===================================================================== claims
\* The page-level error message is what the placeholder region shows.
ErrorShown == placeholder.attached /\ placeholder.textContent[1] = "failed"

Rendered == "render" \in invoked

\* C1: in every reachable state of the page, before, during and after the
\* load and across any load-more clicks, 0 <= visibleCount <= number of
\* meeting groups.
C1_VisibleCountInRange ==
  /\ visibleCount >= 0
  /\ visibleCount <= Len(meetingGroups)

\* C1 witness: a click arrived when fewer than a page of groups was left and
\* was clamped to the number of groups.
C1_Witness ==
  /\ clicks = 2
  /\ Len(meetingGroups) = 12
  /\ visibleCount = 12

\* C2: after a load that rendered n >= 1 groups and k later clicks,
\* visibleCount = min(5 * (k + 1), n) and hasMore holds exactly when
\* 5 * (k + 1) < n; for n = 12 the counts are 5, 10, 12.
C2_CountAfterClicks ==
  (pc = "done" /\ Rendered /\ Len(meetingGroups) >= 1) =>
     /\ visibleCount = Min(5 * (clicks + 1), Len(meetingGroups))
     /\ (visibleCount < Len(meetingGroups)) <=> (5 * (clicks + 1) < Len(meetingGroups))
     /\ (Len(meetingGroups) = 12 /\ clicks <= 2) => visibleCount = <<5, 10, 12>>[clicks + 1]

\* C2 witness: twelve groups, one click, ten visible and more to come.
C2_Witness ==
  /\ pc = "done" /\ Rendered
  /\ Len(meetingGroups) = 12
  /\ clicks = 1
  /\ visibleCount = 10
  /\ ~loadMoreButton.hidden

\* C3: a load-more click handled while hasMore is false changes neither
\* visibleCount, nor meetingGroups (the order of the speeches of every group
\* included), nor the displayed cards, nor the hidden state of the button.
C3_ClickNoOpWhenNoMore ==
  [][ ((clicks' # clicks \/ earlyClicks' # earlyClicks)
        /\ ~HasMore(visibleCount, Len(meetingGroups)))
      => /\ visibleCount' = visibleCount
         /\ meetingGroups' = meetingGroups
         /\ speechList' = speechList
         /\ loadMoreButton'.hidden = loadMoreButton.hidden ]_vars

\* C3 witness: all twelve groups, with two speeches each, were visible after
\* two clicks and a third click has been handled.
C3_Witness ==
  /\ clicks = 3
  /\ Len(meetingGroups) = 12
  /\ visibleCount = 12
  /\ \A i \in 1..12 : Len(meetingGroups[i].speeches) = 2

\* C4: when there are at most five groups the button is hidden in every
\* state once the load has finished, with no click needed, and the button is
\* never shown in a state where a click would leave visibleCount unchanged.
C4_HiddenWithinOnePage ==
  /\ (pc = "done" /\ Len(meetingGroups) <= 5) => loadMoreButton.hidden
  /\ ~loadMoreButton.hidden => Min(visibleCount + 5, Len(meetingGroups)) # visibleCount

\* C4 witness: a load that rendered exactly five groups, no click so far.
C4_Witness ==
  /\ pc = "done" /\ Rendered
  /\ Len(meetingGroups) = 5
  /\ visibleCount = 5
  /\ clicks = 0 /\ earlyClicks = 0
  /\ loadMoreButton.hidden

\* The record ids held by a sequence of groups.
IdsIn(groups) ==
  UNION { { groups[g].speeches[j].id : j \in 1..Len(groups[g].speeches) } : g \in 1..Len(groups) }

\* The record ids of a parsed speech-history payload.
IdsOf(body) ==
  IF body.json = "array" THEN { body.records[i].id : i \in 1..Len(body.records) }
  ELSE UNION { { body.meetings[m].speeches[j].id : j \in 1..Len(body.meetings[m].speeches) } :
               m \in 1..Len(body.meetings) }

\* The number of meetings a parsed payload of the page describes: its meetings,
\* or the distinct issueIDs of its records (every record of these payloads
\* carries one).
MeetingsIn(body) ==
  IF body.json = "array"
  THEN Cardinality({ body.records[i].issueID : i \in 1..Len(body.records) })
  ELSE Len(GroupData(body))

SpeechParsed == speechRes.status = 200 /\ speechRes.body.json \in {"array", "object"}

RosterRejectedOrNotOk ==
  rosterRes.settled = "rejected" \/ (rosterRes.settled = "fulfilled" /\ rosterRes.status = 500)

\* C5: when the roster fetch rejects or answers with a non-OK status and the
\* speech history is fetched and parsed, the load ends with the speech data
\* rendered (all groups held, first page displayed), no profile, no
\* profile-derived field on the page and no error message.
C5_RosterFailureStillRenders ==
  (pc = "done" /\ Truthy(slug) /\ SpeechParsed /\ RosterRejectedOrNotOk) =>
     /\ Rendered /\ "renderFallback" \notin invoked
     /\ memberProfile = NullEntry
     /\ ~ErrorShown /\ placeholder.textContent[1] # "failed"
     /\ IdsIn(meetingGroups) = IdsOf(speechRes.body)
     /\ Len(meetingGroups) = MeetingsIn(speechRes.body)
     /\ Len(meetingGroups) >= 1 =>
          /\ ~speechList.hidden
          /\ Len(speechList.innerHTML) = visibleCount
          /\ visibleCount >= Min(5, Len(meetingGroups))
          /\ ~placeholder.attached
     /\ leagueSection.items = <<>>
     /\ \A i \in 1..Len(memberMetaEl) : memberMetaEl[i][1] # "leagues"
     /\ memberNameEl \in {speechRes.body.member_name, slug}

\* C5 witness: the roster fetch rejected and twelve groups were rendered.
C5_Witness ==
  /\ pc = "done" /\ Rendered
  /\ rosterRes.settled = "rejected"
  /\ Len(meetingGroups) = 12
  /\ Len(speechList.innerHTML) = 5
  /\ ~ErrorShown

\* The roster step of loadData fails: the fetch rejects, the status is not OK,
\* the body cannot be parsed, the payload is null, or an entry read while
\* searching is null.
RosterStepFails ==
  \/ rosterRes.settled = "rejected"
  \/ rosterRes.status = 500
  \/ rosterRes.body.json \in {"invalid", "null"}
  \/ \E i \in 1..Len(rosterRes.body.list) :
       /\ rosterRes.body.list[i].isNull
       /\ \A j \in 1..(i - 1) : rosterRes.body.list[j].slug # slug

\* C6: however the roster step fails, the load ends with memberProfile = null,
\* without the page-level error message, and with the outcome the
\* speech-history response alone determines: render for a parsed payload,
\* renderFallback for a 404.
C6_RosterErrorsNeverSurface ==
  (pc = "done" /\ Truthy(slug) /\ RosterStepFails) =>
     /\ memberProfile = NullEntry
     /\ SpeechParsed => (Rendered /\ placeholder.textContent[1] # "failed")
     /\ speechRes.status = 404 => ("renderFallback" \in invoked /\ placeholder.textContent[1] # "failed")

\* The first entry of the roster list that carries the requested slug, when the
\* search reaches it.
RosterHasSlug ==
  /\ rosterRes.settled = "fulfilled" /\ rosterRes.status = 200
  /\ rosterRes.body.json \in {"array", "object"}
  /\ \E i \in 1..Len(rosterRes.body.list) :
       /\ rosterRes.body.list[i].slug = slug
       /\ \A j \in 1..(i - 1) : ~rosterRes.body.list[j].isNull

FirstMatch ==
  rosterRes.body.list[CHOOSE i \in 1..Len(rosterRes.body.list) :
                        /\ rosterRes.body.list[i].slug = slug
                        /\ \A j \in 1..(i - 1) : rosterRes.body.list[j].slug # slug]

\* C7: a 404 for the speech history with a roster that lists the slug ends in
\* the fallback state: the leagues of the profile are displayed, the summary
\* region shows the not-yet-registered message, the load-more button is
\* hidden and the generic error message is not shown.
C7_FallbackOn404 ==
  (pc = "done" /\ Truthy(slug) /\ speechRes.settled = "fulfilled" /\ speechRes.status = 404
     /\ RosterHasSlug) =>
     /\ "renderFallback" \in invoked /\ ~Rendered
     /\ memberProfile = FirstMatch
     /\ ~leagueSection.hidden
     /\ FirstMatch.hasLeagues =>
          (leagueSection.items = FirstMatch.disability_leagues /\ ~leagueSection.listHidden)
     /\ ~FirstMatch.hasLeagues => (leagueSection.listHidden /\ leagueSection.placeholder = "no-leagues")
     /\ summarySection = "not-registered"
     /\ loadMoreButton.hidden
     /\ ~ErrorShown /\ placeholder.textContent[1] # "failed"

\* C7 witness: the fallback was rendered with a profile that has two leagues.
C7_Witness ==
  /\ pc = "done"
  /\ speechRes.status = 404
  /\ "renderFallback" \in invoked
  /\ leagueSection.items = <<"l1", "l2">>
  /\ summarySection = "not-registered"

\* C8: when the speech-history fetch rejects or answers with a non-OK status
\* other than 404, the load ends with the generic error message and its
\* description in the placeholder, whatever the roster fetch did; render and
\* renderFallback are never invoked and meetingGroups and visibleCount keep
\* their initial values.
C8_SpeechFailureIsAnError ==
  (Truthy(slug) /\ (speechRes.settled = "rejected" \/ speechRes.status = 500)) =>
     /\ invoked = {}
     /\ meetingGroups = <<>> /\ visibleCount = 0
     /\ pc = "done" =>
          /\ ErrorShown
          /\ Len(placeholder.textContent) = 2
          /\ speechRes.settled = "rejected" => placeholder.textContent[2] = "network"
          /\ (speechRes.status = 500 /\ ~RosterStepFails) => placeholder.textContent[2] = "HTTP"

\* C8 witness: status 500 for the speech history, a roster that parsed, the
\* error shown, and a click handled afterwards.
C8_Witness ==
  /\ pc = "done"
  /\ speechRes.status = 500
  /\ rosterRes.status = 200 /\ RosterHasSlug
  /\ placeholder = [attached |-> TRUE, textContent |-> <<"failed", "HTTP">>]
  /\ clicks = 1

\* The flat input of groupByMeeting and the places of its records in the output.
Records == speechRes.body.records

PlacesOf(record) ==
  UNION { { <<g, j>> : j \in { k \in 1..Len(meetingGroups[g].speeches) :
                                 meetingGroups[g].speeches[k] = record } } :
          g \in 1..Len(meetingGroups) }

RECURSIVE TotalSpeeches(_)
TotalSpeeches(groups) ==
  IF groups = <<>> THEN 0 ELSE Len(Head(groups).speeches) + TotalSpeeches(Tail(groups))

\* C9: the groups returned by groupByMeeting partition the flat input: every
\* input record is in the speeches of exactly one group, exactly once, and the
\* lengths of the speeches lists add up to the input length.
C9_GroupsPartitionInput ==
  pc = "grouped" =>
     /\ \A i \in 1..Len(Records) : Cardinality(PlacesOf(Records[i])) = 1
     /\ TotalSpeeches(meetingGroups) = Len(Records)
     /\ \A g \in 1..Len(meetingGroups) : meetingGroups[g].speeches # <<>>

\* C9 witness: three records grouped into two groups.
C9_Witness ==
  /\ pc = "grouped"
  /\ Len(Records) = 3
  /\ Len(meetingGroups) = 2

\* Records i and j of the input are in the same group of the output.
SameGroup(i, j) ==
  \E g \in 1..Len(meetingGroups) :
     /\ \E k \in 1..Len(meetingGroups[g].speeches) : meetingGroups[g].speeches[k].id = i
     /\ \E k \in 1..Len(meetingGroups[g].speeches) : meetingGroups[g].speeches[k].id = j

\* The key as the claim describes it: the issueID when present, otherwise the
\* triple (date, nameOfMeeting, issue).
StructuredKey(record) ==
  IF record.issueID # Undefined
  THEN <<"issueID", record.issueID>>
  ELSE <<"triple", record.date, record.nameOfMeeting, record.issue>>

\* C10 as stated: two records share a group exactly when they have the same
\* structured key (issueID when present, else the triple), and there is one
\* group per distinct structured key.
C10_Original ==
  pc = "grouped" =>
     /\ \A i, j \in 1..Len(Records) :
          SameGroup(i, j) <=> StructuredKey(Records[i]) = StructuredKey(Records[j])
     /\ Len(meetingGroups) = Cardinality({ StructuredKey(Records[i]) : i \in 1..Len(Records) })

\* The key text as the code builds it: the issueID when it is a non-empty
\* string, otherwise date, nameOfMeeting and issue joined with "_", a missing
\* field reading "undefined".
KeyText(record) ==
  IF record.issueID # Undefined /\ record.issueID # <<>>
  THEN record.issueID
  ELSE (IF record.date = Undefined THEN UndefinedText ELSE record.date) \o <<"_">>
       \o (IF record.nameOfMeeting = Undefined THEN UndefinedText ELSE record.nameOfMeeting)
       \o <<"_">>
       \o (IF record.issue = Undefined THEN UndefinedText ELSE record.issue)

\* C10 amended: two records share a group exactly when their key texts are
\* equal, and there is one group per distinct key text; records whose
\* structured keys differ share a group only when their key texts coincide.
C10_SameGroupIffSameKeyText ==
  pc = "grouped" =>
     /\ \A i, j \in 1..Len(Records) :
          SameGroup(i, j) <=> KeyText(Records[i]) = KeyText(Records[j])
     /\ Len(meetingGroups) = Cardinality({ KeyText(Records[i]) : i \in 1..Len(Records) })

\* C10 witness: a record with an issueID and a record without one, whose
\* joined triple reads the same, were put in one group.
C10_Witness ==
  /\ pc = "grouped"
  /\ Len(Records) = 2
  /\ Records[1].issueID # Undefined
  /\ Records[2].issueID = Undefined
  /\ Len(meetingGroups) = 1

\* The date a group is sorted by: a missing date counts as the empty string.
SortDate(group) == IF group.date = Undefined THEN <<>> ELSE group.date

\* C11: for both payload shapes the meetingGroups set by render are sorted by
\* date descending: of two adjacent groups the earlier one's date compares
\* >= the later one's, a missing date counting as the empty string and so
\* coming last.
C11_GroupsSortedByDateDesc ==
  Rendered =>
     /\ \A i \in 1..(Len(meetingGroups) - 1) :
          localeCompare(SortDate(meetingGroups[i]), SortDate(meetingGroups[i + 1])) >= 0
     /\ \A i, j \in 1..Len(meetingGroups) :
          (SortDate(meetingGroups[i]) = <<>> /\ SortDate(meetingGroups[j]) # <<>>) => j < i

\* C11 witness: twelve groups of a pre-grouped payload whose meetings came in
\* another order, the first with the latest date, the last without a date.
C11_Witness ==
  /\ Rendered
  /\ speechRes.body.json = "object"
  /\ Len(meetingGroups) = 12
  /\ meetingGroups[1].date = <<"2">>
  /\ meetingGroups[12].date = Undefined
  /\ speechRes.body.meetings[1].date # <<"2">>

\* The speechOrder a displayed item is ordered by: a missing one counts as 0.
ItemOrder(item) == IF item.hasOrderLink THEN item.order ELSE 0

\* C12: in every displayed meeting card the speech items are in ascending
\* speechOrder, a missing speechOrder counting as 0, whatever the order of the
\* records in the payload.
C12_ItemsAscendingBySpeechOrder ==
  \A c \in 1..Len(speechList.innerHTML) :
     \A i \in 1..(Len(speechList.innerHTML[c].items) - 1) :
        ItemOrder(speechList.innerHTML[c].items[i]) <= ItemOrder(speechList.innerHTML[c].items[i + 1])

\* C12 witness: a card of a flat payload whose records came with speechOrder 2
\* first and a record without speechOrder second, displayed the other way round.
C12_Witness ==
  /\ Rendered
  /\ speechRes.body.json = "array"
  /\ \E c \in 1..Len(speechList.innerHTML) :
       /\ Len(speechList.innerHTML[c].items) = 2
       /\ ~speechList.innerHTML[c].items[1].hasOrderLink
       /\ speechList.innerHTML[c].items[2].order = 2
       /\ speechList.innerHTML[c].items[1].id > speechList.innerHTML[c].items[2].id

\* The first defined value of the history payload's member_name, the matched
\* profile's member_name, the slug and the literal label.
FirstDefinedName ==
  LET payloadName == IF Rendered THEN speechRes.body.member_name ELSE Undefined
      profileName == IF memberProfile.isNull THEN Undefined ELSE memberProfile.member_name
  IN IF payloadName # Undefined THEN payloadName
     ELSE IF profileName # Undefined THEN profileName
     ELSE IF slug # Undefined THEN slug
     ELSE MemberLabel

\* C13: on every load path that displays a member name (render of a flat or
\* of a pre-grouped payload, and the 404 fallback) the displayed name is the
\* first defined of payload member_name, profile member_name, slug, label.
C13_NameFallbackChain ==
  (pc = "done" /\ (Rendered \/ "renderFallback" \in invoked)) => memberNameEl = FirstDefinedName

\* C14: without a slug no fetch is issued, the placeholder shows the
\* no-member message once loadData has run, the generic error message is
\* never shown, neither render nor renderFallback runs, and meetingGroups and
\* visibleCount stay [] and 0 through any later clicks.
C14_MissingSlugIsHandled ==
  ~Truthy(slug) =>
     /\ pc \in {"start", "done"}
     /\ pc = "done" => placeholder = [attached |-> TRUE, textContent |-> <<"no-member">>]
     /\ ~ErrorShown
     /\ invoked = {}
     /\ meetingGroups = <<>> /\ visibleCount = 0
     /\ speechList.innerHTML = <<>>

\* C14 witness: no slug, the message shown, and two clicks handled afterwards.
C14_Witness ==
  /\ slug = Undefined
  /\ pc = "done"
  /\ placeholder.textContent = <<"no-member">>
  /\ clicks = 2

\* What a load that reaches render leaves in the pager state, as a function of
\* the payload alone.
GroupsOfLoad == NewMeetingGroups(speechRes.body)

\* C16: clicks handled while the fetches are pending do not influence the
\* result of the load: right after a load that rendered n >= 0 groups the
\* pager state is the one the payload alone determines (visibleCount =
\* min(5, n), the groups, the cards of the first page, the button shown
\* exactly when n > 5), and the step that assigns meetingGroups also assigns
\* visibleCount, with no click in between.
C16_EarlyClicksDoNotInfluenceLoad ==
  /\ []((pc = "done" /\ Rendered /\ clicks = 0) =>
          /\ Len(meetingGroups) = MeetingsIn(speechRes.body)
          /\ visibleCount = Min(5, Len(meetingGroups))
          /\ meetingGroups = GroupsAfterRender(GroupsOfLoad, Min(5, Len(GroupsOfLoad)))
          /\ speechList.innerHTML =
               [i \in 1..Min(5, Len(GroupsOfLoad)) |-> renderMeetingCard(GroupsOfLoad[i])]
          /\ loadMoreButton.hidden = (Len(GroupsOfLoad) <= 5))
  /\ [][ (pc = "speechJson" /\ pc' = "done" /\ Rendered') =>
           /\ clicks' = clicks /\ earlyClicks' = earlyClicks
           /\ visibleCount' = Min(5, Len(meetingGroups')) ]_vars

\* C16 witness: a click was handled while the fetches were pending and the
\* load then rendered twelve groups, five of them visible.
C16_Witness ==
  /\ pc = "done" /\ Rendered
  /\ earlyClicks = 1 /\ clicks = 0
  /\ Len(meetingGroups) = 12
  /\ visibleCount = 5
  /\ ~loadMoreButton.hidden

\* The groups and their order, without the order of the speeches inside them.
GroupOutline(groups) ==
  [i \in 1..Len(groups) |->
     [date |-> groups[i].date, meetingName |-> groups[i].meetingName,
      issue |-> groups[i].issue, session |-> groups[i].session,
      ids |-> { groups[i].speeches[j].id : j \in 1..Len(groups[i].speeches) },
      count |-> Len(groups[i].speeches)]]

\* C17: after every render and after every click the displayed cards are the
\* cards of the first visibleCount groups, in order; a click keeps every card
\* already displayed in its place and only appends, and it leaves the groups
\* of meetingGroups and their order as they were.
C17_DisplayedIsVisiblePrefix ==
  /\ []((Rendered \/ clicks > 0 \/ earlyClicks > 0) =>
          /\ Len(speechList.innerHTML) = visibleCount
          /\ \A i \in 1..visibleCount :
               speechList.innerHTML[i] = renderMeetingCard(meetingGroups[i]))
  /\ [][ (clicks' # clicks \/ earlyClicks' # earlyClicks) =>
           /\ Len(speechList'.innerHTML) >= Len(speechList.innerHTML)
           /\ \A i \in 1..Len(speechList.innerHTML) :
                speechList'.innerHTML[i] = speechList.innerHTML[i]
           /\ GroupOutline(meetingGroups') = GroupOutline(meetingGroups) ]_vars

\* C17 witness: ten cards displayed after one click on twelve groups.
C17_Witness ==
  /\ Rendered
  /\ clicks = 1
  /\ Len(meetingGroups) = 12
  /\ Len(speechList.innerHTML) = 10

\* ---------------------------------------------------------------------- C15
\* The text given to extractSummary and the summary it returned.
SummaryInput == speechRes.body.records[1].speech

SummaryOutput == speechList.innerHTML[1].summary

\* The speaker-marker pattern occurs in s: at the start of s or of one of
\* its lines stands the mark followed by a character that is neither space.
HasMarker(s) ==
  \E p \in 1..(Len(s) - 1) :
    /\ p = 1 \/ s[p - 1] = "\n"
    /\ s[p] = CircleMark
    /\ s[p + 1] \notin {WideSpace, " "}

\* The length and truncation part of the claim, for every text: a missing
\* or empty text gives the empty string; otherwise the summary is the
\* cleaned text when that has at most 100 characters, and its first 100
\* characters followed by the ellipsis when it has more.
SummaryShape ==
  LET out == SummaryOutput
      clean == IF SummaryInput = Undefined THEN <<>> ELSE CleanText(SummaryInput)
  IN /\ SummaryInput \in {Undefined, <<>>} => out = <<>>
     /\ Len(out) <= SUMMARY_LIMIT + 1
     /\ \A i \in 1..Len(out) : out[i] = Ellipsis => i = SUMMARY_LIMIT + 1
     /\ Len(clean) <= SUMMARY_LIMIT => out = clean
     /\ Len(clean) > SUMMARY_LIMIT =>
          /\ Len(out) = SUMMARY_LIMIT + 1
          /\ out[SUMMARY_LIMIT + 1] = Ellipsis
          /\ SubSeq(out, 1, SUMMARY_LIMIT) = SubSeq(clean, 1, SUMMARY_LIMIT)
     /\ \A i \in 1..Len(out) :
          /\ out[i] \notin {"\n", WideSpace}
          /\ out[i] = " " => i > 1 /\ i < Len(out) /\ out[i + 1] # " "

\* C15: for every text, the summary contains no occurrence of the
\* speaker-marker pattern, has whitespace collapsed and trimmed, and is cut
\* at 100 characters with an ellipsis appended when the cleaned text is
\* longer.
C15_SummaryNeverHoldsMarker ==
  pc = "summarised" => SummaryShape /\ ~HasMarker(SummaryOutput)

====
